---------------------------- MODULE Spec2Model ----------------------------
(***************************************************************************)
(* Movie-Baba recommender: the similarity lookup of app.py, app2.py and    *)
(* app3.py, and the cached, retried, concurrent poster fetch of app3.py.   *)
(*                                                                         *)
(* Indices are Python's (0-based) wherever the code handles them as        *)
(* values; a Python list is a TLA+ sequence, so list[i] is seq[i + 1].     *)
(* Similarity scores are integers (tenths): the code only compares them.   *)
(***************************************************************************)
EXTENDS Integers, Sequences, FiniteSets, TLC

VARIABLES
    app,                               \* the program that runs: "app.py", "app2.py" or "app3.py"
    movies,                            \* the DataFrame: rows [id, title]
    similarity,                        \* the matrix: a sequence of rows
    phase,                             \* recommend_movies_final: "idle", "fetching", "returned"
    outcome,                           \* how the last call of recommend_movies_final ended
    movie_selected_title,              \* its argument
    matrix_read,                       \* whether it indexed similarity
    movie_index,                       \* its movie_index (-1: none)
    movies_list_indices_scores,        \* its sorted, sliced <<index, score>> pairs
    recommended_movies_data_to_fetch,  \* its [tmdb_id, title, original_order] list
    futures,                           \* one record per submitted future
    posters_map,                       \* dict tmdb_id -> poster_url: <<key, value>> in insertion order
    titles_map,                        \* dict tmdb_id -> title
    ordered_titles,                    \* the returned title list
    ordered_posters,                   \* the returned poster list
    cache,                             \* st.cache_data: tmdb_id -> [url, at]
    clock,                             \* wall clock, in hours
    batches,                           \* calls of recommend_movies_final so far
    legacy                             \* the last call of app.py / app2.py

vars == <<app, movies, similarity, phase, outcome, movie_selected_title,
          matrix_read, movie_index,
          movies_list_indices_scores, recommended_movies_data_to_fetch,
          futures, posters_map, titles_map, ordered_titles, ordered_posters,
          cache, clock, batches, legacy>>

dataVars == <<app, movies, similarity>>
finalVars == <<phase, outcome, movie_selected_title, matrix_read, movie_index, movies_list_indices_scores,
               recommended_movies_data_to_fetch, futures, posters_map,
               titles_map, ordered_titles, ordered_posters, batches>>

----------------------------------------------------------------------------
(* Bounds of the model *)

MaxScore == 1        \* similarity scores range over 0..MaxScore
MaxBatches == 2      \* calls of recommend_movies_final in one behaviour
MaxTicks == 2        \* clock advances in one behaviour
TickHours == 3       \* hours per clock advance
AttemptCap == 5      \* network calls one fetch may issue before the model stops it

(* Program constants *)

SliceFrom == 1       \* sorted(...)[1:6]
SliceTo == 6
RetryTotal == 3      \* Retry(total=3)
TTL == 6             \* st.cache_data(ttl="6h"), in hours
MaxWorkers == 5      \* ThreadPoolExecutor(max_workers=5)
status_forcelist == {429, 500, 502, 503, 504}

placeholder_no_poster == "https://via.placeholder.com/500x750.png?text=No+Poster+Available"
placeholder_error == "https://via.placeholder.com/500x750.png?text=Error+Loading+Poster"
placeholder_processing == "https://via.placeholder.com/500x750.png?text=Error+Processing"
placeholder_not_found == "https://via.placeholder.com/500x750.png?text=Poster+Not+Found"
image_prefix == "https://image.tmdb.org/t/p/w500/"
legacy_no_image == "https://via.placeholder.com/500x750.png?text=No+Image"
legacy_error == "https://via.placeholder.com/500x750.png?text=Error"

None == "None"       \* Python's None, where a list cell or a field holds it
Raised == "<raised>" \* in place of a return value: the call raised instead

----------------------------------------------------------------------------
(* Python helpers *)

Min(a, b) == IF a < b THEN a ELSE b

\* s[a:b] for 0 <= a <= b
Slice(s, a, b) == SubSeq(s, a + 1, Min(b, Len(s)))

\* list(enumerate(row))
Enumerate(row) == [k \in 1..Len(row) |-> <<k - 1, row[k]>>]

\* x put into the descending list s before the elements of equal key
InsertBeforeEquals(s, x) ==
    LET n == Cardinality({k \in 1..Len(s) : s[k][2] > x[2]})
    IN  SubSeq(s, 1, n) \o <<x>> \o SubSeq(s, n + 1, Len(s))

\* Where Python's stable sort with reverse=True puts x, the next element of
\* the input, into the descending list s of the elements before it: behind
\* every element whose key is >= x's key (equal keys keep input order).
InsertDesc(s, x) ==
    LET n == Cardinality({k \in 1..Len(s) : s[k][2] >= x[2]})
    IN  SubSeq(s, 1, n) \o <<x>> \o SubSeq(s, n + 1, Len(s))

\* sorted(pairs, reverse=True, key=lambda x: x[1])
RECURSIVE SortedDesc(_)
SortedDesc(pairs) ==
    IF pairs = <<>> THEN <<>>
    ELSE InsertDesc(SortedDesc(SubSeq(pairs, 1, Len(pairs) - 1)), pairs[Len(pairs)])

\* movies[movies['title'] == title].index, as a list of 0-based positions
RECURSIVE TitleIndex(_, _)
TitleIndex(title, k) ==
    IF k > Len(movies) THEN <<>>
    ELSE (IF movies[k].title = title THEN <<k - 1>> ELSE <<>>) \o TitleIndex(title, k + 1)

\* sorted(list(enumerate(similarity[index])), ...)[1:] with no upper limit
TopSliceAll(row) == Slice(SortedDesc(Enumerate(row)), SliceFrom, Len(row))

\* sorted(list(enumerate(similarity[index])), reverse=True, key=...)[1:6]
TopSlice(row) == Slice(SortedDesc(Enumerate(row)), SliceFrom, SliceTo)

----------------------------------------------------------------------------
(* The remote endpoint and one HTTP exchange *)

Digit == <<"1", "2", "3", "4", "5", "6", "7", "8", "9">>

\* The poster_path TMDB holds for an id ("/p1.jpg" for id 1)
PosterPath(id) == "/p" \o Digit[id] \o ".jpg"

\* What one GET can come back with.  kind "http" is a response with a status
\* and a body; "timeout" is a transport failure (timeout, connection error).
Http(status, json, poster_path) ==
    [kind |-> "http", status |-> status, json |-> json, poster_path |-> poster_path]
TransportFailure == [kind |-> "timeout", status |-> 0, json |-> FALSE, poster_path |-> None]
NoResponse == [kind |-> "none", status |-> 0, json |-> FALSE, poster_path |-> None]

ResponseKinds == {"poster", "empty", "null", "garbage", "s404", "s503", "timeout"}

ResponseFor(kind, id) ==
    CASE kind = "poster"  -> Http(200, TRUE, PosterPath(id))  \* a poster
      [] kind = "empty"   -> Http(200, TRUE, "")              \* poster_path: ""
      [] kind = "null"    -> Http(200, TRUE, None)            \* poster_path: null, or no such field
      [] kind = "garbage" -> Http(200, FALSE, None)           \* a body that is not JSON
      [] kind = "s404"    -> Http(404, TRUE, None)
      [] kind = "s503"    -> Http(503, TRUE, None)
      [] kind = "timeout" -> TransportFailure

\* A forcelist that holds every error status
RetryableEveryError(r) == r.kind = "timeout" \/ (r.kind = "http" /\ r.status >= 400)

\* urllib3 retries a transport failure and a status of status_forcelist
Retryable(r) == r.kind = "timeout" \/ (r.kind = "http" /\ r.status \in status_forcelist)

\* A test for None only: `if poster_path is not None`
TruthyNotNone(poster_path) == poster_path # None

\* Python truthiness of data.get('poster_path')
Truthy(poster_path) == poster_path # None /\ poster_path # ""

\* The same without the except clauses for ValueError and Exception
PosterNoValueError(r) ==
    IF r.kind # "http" THEN placeholder_error
    ELSE IF r.status >= 400 THEN placeholder_error
    ELSE IF ~r.json THEN Raised
    ELSE IF Truthy(r.poster_path) THEN image_prefix \o r.poster_path
    ELSE placeholder_no_poster

\* Lines 50-78 of app3.py on a response the adapter handed back (or on the
\* exception it raised once the retries were used up).
PosterOfResponse(r) ==
    IF r.kind # "http" THEN placeholder_error              \* RequestException
    ELSE IF r.status >= 400 THEN placeholder_error         \* raise_for_status / RetryError
    ELSE IF ~r.json THEN placeholder_error                 \* ValueError
    ELSE IF Truthy(r.poster_path) THEN image_prefix \o r.poster_path
    ELSE placeholder_no_poster

\* app.py: fetch_poster (no retry adapter: one GET)
LegacyPoster(r) ==
    IF r.kind # "http" \/ r.status >= 400 \/ ~r.json THEN legacy_error
    ELSE IF Truthy(r.poster_path) THEN image_prefix \o r.poster_path
    ELSE legacy_no_image


----------------------------------------------------------------------------
(* The data loaded at start-up *)

TitleNames == <<"A", "B", "C", "D", "E", "F", "G", "H", "I">>
UnknownTitle == "Zzz"

\* Catalog sizes of the lookup specification: fewer candidates than the
\* slice takes, exactly as many, and more.
MaxN == SliceTo + 1

\* The row of section 8 of the specification, in tenths
ExampleRow == <<10, 9, 2, 9, 5, 1>>

\* The square matrix whose row i is seed rotated so that seed[1] is on the
\* diagonal: as seed ranges over all rows, so does every row of the matrix.
MatrixOf(seed) ==
    LET n == Len(seed)
    IN  [i \in 1..n |-> [j \in 1..n |-> seed[((j - i + n) % n) + 1]]]

Rows(n) == [1..n -> 0..MaxScore] \cup (IF n = Len(ExampleRow) THEN {ExampleRow} ELSE {})

Idle ==
    /\ phase = "idle"
    /\ outcome = "none"
    /\ movie_selected_title = None
    /\ matrix_read = FALSE
    /\ movie_index = -1
    /\ movies_list_indices_scores = <<>>
    /\ recommended_movies_data_to_fetch = <<>>
    /\ futures = <<>>
    /\ posters_map = <<>>
    /\ titles_map = <<>>
    /\ ordered_titles = <<>>
    /\ ordered_posters = <<>>
    /\ cache = <<>>
    /\ clock = 0
    /\ batches = 0
    /\ legacy = [fn |-> "none", title |-> None, outcome |-> "none", matrix_read |-> FALSE,
                 movie_index |-> -1, movies_list |-> <<>>, names |-> <<>>, posters |-> <<>>]

\* Catalogs of 1..MaxN items with distinct ids; the last title may repeat the first.
InitLookup ==
    /\ app \in {"app.py", "app2.py", "app3.py"}
    /\ \E n \in 1..MaxN, dup \in BOOLEAN :
         /\ movies = [k \in 1..n |->
                        [id |-> k,
                         title |-> IF dup /\ k = n THEN TitleNames[1] ELSE TitleNames[k]]]
         /\ \E seed \in Rows(n) : similarity = MatrixOf(seed)
    /\ Idle

Titles == {movies[k].title : k \in 1..Len(movies)} \cup {UnknownTitle}

----------------------------------------------------------------------------
(* app.py: recommend_movies, and app2.py: recommend.  Both index the lookup *)
(* with [0] outside any try, sort, slice [1:6] and fetch one poster per    *)
(* pick in turn.  kind is how the endpoint answers during the call.  The   *)
(* functions keep no state, so one call per behaviour shows all they do.   *)

\* app2.py: fetch_poster
App2Poster(r) ==
    IF r.kind # "http" \/ r.status >= 400 \/ ~r.json THEN legacy_error
    ELSE IF Truthy(r.poster_path) THEN image_prefix \o r.poster_path
    ELSE legacy_no_image

PosterBy(fn, r) == IF fn = "recommend_movies" THEN LegacyPoster(r) ELSE App2Poster(r)

LegacyCall(fn, title, kind) ==
    LET found == TitleIndex(title, 1) IN
    IF found = <<>>
    THEN [fn |-> fn, title |-> title, outcome |-> "IndexError", matrix_read |-> FALSE,
          movie_index |-> -1, movies_list |-> <<>>, names |-> <<>>, posters |-> <<>>]
    ELSE LET index == found[1]
             movies_list == TopSlice(similarity[index + 1])
         IN  IF \E k \in 1..Len(movies_list) : movies_list[k][1] >= Len(movies)
             THEN [fn |-> fn, title |-> title, outcome |-> "IndexError", matrix_read |-> TRUE,
                   movie_index |-> index, movies_list |-> movies_list,
                   names |-> <<>>, posters |-> <<>>]
             ELSE [fn |-> fn, title |-> title, outcome |-> "ok", matrix_read |-> TRUE,
                   movie_index |-> index, movies_list |-> movies_list,
                   names |-> [k \in 1..Len(movies_list) |->
                                movies[movies_list[k][1] + 1].title],
                   posters |-> [k \in 1..Len(movies_list) |->
                                  PosterBy(fn, ResponseFor(kind, movies[movies_list[k][1] + 1].id))]]

recommend_movies(title, kind) ==
    /\ app = "app.py"
    /\ legacy.outcome = "none"
    /\ legacy' = LegacyCall("recommend_movies", title, kind)
    /\ UNCHANGED <<dataVars, finalVars, cache, clock>>

recommend(title, kind) ==
    /\ app = "app2.py"
    /\ legacy.outcome = "none"
    /\ legacy' = LegacyCall("recommend", title, kind)
    /\ UNCHANGED <<dataVars, finalVars, cache, clock>>


----------------------------------------------------------------------------
(* app3.py: recommend_movies_final, up to the submission of the futures     *)

\* Lines 96-103: the picks inside the DataFrame, each with its rank i
RECURSIVE DataToFetch(_, _)
DataToFetch(pairs, i) ==
    IF i >= Len(pairs) THEN <<>>
    ELSE LET original_df_index == pairs[i + 1][1] IN
         (IF original_df_index < Len(movies)
          THEN <<[tmdb_id |-> movies[original_df_index + 1].id,
                  title |-> movies[original_df_index + 1].title,
                  original_order |-> i]>>
          ELSE <<>>)
         \o DataToFetch(pairs, i + 1)

\* A future just submitted to the executor
Submitted ==
    [st |-> "PENDING", total |-> RetryTotal, attempts |-> 0,
     last |-> NoResponse, all503 |-> TRUE, how |-> "none", url |-> None,
     collected |-> FALSE]

\* A future whose result as_completed has handed over: only the result counts
Collected(url) == [Submitted EXCEPT !.st = "DONE", !.url = url, !.collected = TRUE]

\* The function without the slice and without the executor: a poster for
\* every other catalog item, each fetch in a thread of its own, started at once
recommend_movies_unpooled(title) ==
    /\ app = "app3.py"
    /\ phase \in {"idle", "returned"}
    /\ batches < MaxBatches
    /\ batches' = batches + 1
    /\ movie_selected_title' = title
    /\ posters_map' = <<>>
    /\ titles_map' = <<>>
    /\ LET found == TitleIndex(title, 1) IN
       IF found = <<>>
       THEN /\ outcome' = "NotFound"
            /\ matrix_read' = FALSE
            /\ phase' = "returned"
            /\ movie_index' = -1
            /\ movies_list_indices_scores' = <<>>
            /\ recommended_movies_data_to_fetch' = <<>>
            /\ futures' = <<>>
            /\ ordered_titles' = <<>>
            /\ ordered_posters' = <<>>
       ELSE LET picks == TopSliceAll(similarity[found[1] + 1])
                data == DataToFetch(picks, 0)
            IN  /\ matrix_read' = TRUE
                /\ movie_index' = found[1]
                /\ movies_list_indices_scores' = picks
                /\ recommended_movies_data_to_fetch' = data
                /\ ordered_titles' = <<>>
                /\ ordered_posters' = <<>>
                /\ IF data = <<>>
                   THEN /\ outcome' = "empty"
                        /\ phase' = "returned"
                        /\ futures' = <<>>
                   ELSE /\ outcome' = "pending"
                        /\ phase' = "fetching"
                        /\ futures' = [k \in 1..Len(data) |->
                                         [Submitted EXCEPT !.st = "REQUESTING", !.how = "miss"]]
    /\ UNCHANGED <<dataVars, cache, clock, legacy>>

recommend_movies_final(title) ==
    /\ app = "app3.py"
    /\ phase \in {"idle", "returned"}
    /\ batches < MaxBatches
    /\ batches' = batches + 1
    /\ movie_selected_title' = title
    /\ posters_map' = <<>>
    /\ titles_map' = <<>>
    /\ LET found == TitleIndex(title, 1) IN
       IF found = <<>>
       THEN \* except IndexError: return [], []
            /\ outcome' = "NotFound"
            /\ matrix_read' = FALSE
            /\ phase' = "returned"
            /\ movie_index' = -1
            /\ movies_list_indices_scores' = <<>>
            /\ recommended_movies_data_to_fetch' = <<>>
            /\ futures' = <<>>
            /\ ordered_titles' = <<>>
            /\ ordered_posters' = <<>>
       ELSE LET picks == TopSlice(similarity[found[1] + 1])
                data == DataToFetch(picks, 0)
            IN  /\ matrix_read' = TRUE
                /\ movie_index' = found[1]
                /\ movies_list_indices_scores' = picks
                /\ recommended_movies_data_to_fetch' = data
                /\ ordered_titles' = <<>>
                /\ ordered_posters' = <<>>
                /\ IF data = <<>>
                   THEN /\ outcome' = "empty"        \* return [], []
                        /\ phase' = "returned"
                        /\ futures' = <<>>
                   ELSE /\ outcome' = "pending"
                        /\ phase' = "fetching"
                        /\ futures' = [k \in 1..Len(data) |-> Submitted]
    /\ UNCHANGED <<dataVars, cache, clock, legacy>>

----------------------------------------------------------------------------
(* app3.py: fetch_poster_robust_cached in the worker threads                *)

\* A function that is not cached at all
FreshNever(id) == FALSE
\* A cache without ttl
FreshForever(id) == id \in DOMAIN cache

\* st.cache_data(ttl="6h"): an entry serves until its age reaches the TTL
Fresh(id) == id \in DOMAIN cache /\ clock - cache[id].at < TTL

\* A cache that keeps real poster URLs only
StoredPostersOnly(id, url) ==
    IF url \in {placeholder_no_poster, placeholder_error} THEN cache
    ELSE (id :> [url |-> url, at |-> clock]) @@ cache

\* The function returned url: st.cache_data stores it, stamped with the time
Stored(id, url) == (id :> [url |-> url, at |-> clock]) @@ cache

\* urllib3 Retry.increment and Retry.is_exhausted on the total counter
IncrementNone(total) == total
\* A retry that is charged twice
IncrementTwice(total) == total - 2
Increment(total) == total - 1
IsExhaustedEarly(total) == total < 1
IsExhausted(total) == total < 0

IdOf(i) == recommended_movies_data_to_fetch[i].tmdb_id

Running == {i \in 1..Len(futures) : futures[i].st \in {"REQUESTING", "BACKOFF"}}

\* A worker takes the future and calls the cached function: a fresh entry
\* is returned as it is, anything else runs the function body.
CacheCheck(i) ==
    /\ phase = "fetching"
    /\ i \in 1..Len(futures)
    /\ futures[i].st = "PENDING"
    /\ Cardinality(Running) < MaxWorkers
    /\ futures' = [futures EXCEPT ![i] =
         IF Fresh(IdOf(i))
         THEN [@ EXCEPT !.st = "DONE", !.how = "hit", !.url = cache[IdOf(i)].url]
         ELSE [@ EXCEPT !.st = "REQUESTING",
                        !.how = IF IdOf(i) \in DOMAIN cache THEN "stale" ELSE "miss"]]
    /\ UNCHANGED <<dataVars, phase, outcome, movie_selected_title, matrix_read,
                   movie_index, movies_list_indices_scores,
                   recommended_movies_data_to_fetch, posters_map, titles_map,
                   ordered_titles, ordered_posters, cache, clock, batches, legacy>>

\* One GET of http_session.get (line 49) and what the retry adapter and the
\* rest of the function make of its answer.  last keeps the response the
\* function finally worked on (the value of response at line 50).
NetworkCall(i, kind) ==
    /\ phase = "fetching"
    /\ i \in 1..Len(futures)
    /\ futures[i].st = "REQUESTING"
    /\ futures[i].attempts < AttemptCap
    /\ LET r == ResponseFor(kind, IdOf(i))
           f == [futures[i] EXCEPT !.attempts = @ + 1,
                                   !.all503 = @ /\ r.kind = "http" /\ r.status = 503]
       IN  IF Retryable(r) /\ ~IsExhausted(Increment(f.total))
           THEN /\ futures' = [futures EXCEPT ![i] =
                      [f EXCEPT !.st = "BACKOFF", !.total = Increment(@)]]
                /\ cache' = cache
           ELSE LET url == PosterOfResponse(r) IN
                /\ futures' = [futures EXCEPT ![i] = [f EXCEPT !.st = "DONE", !.last = r, !.url = url]]
                /\ cache' = IF url = Raised THEN cache ELSE Stored(IdOf(i), url)
    /\ UNCHANGED <<dataVars, phase, outcome, movie_selected_title, matrix_read,
                   movie_index, movies_list_indices_scores,
                   recommended_movies_data_to_fetch, posters_map, titles_map,
                   ordered_titles, ordered_posters, clock, batches, legacy>>

\* The backoff sleep of the adapter is over
BackoffOver(i) ==
    /\ phase = "fetching"
    /\ i \in 1..Len(futures)
    /\ futures[i].st = "BACKOFF"
    /\ futures' = [futures EXCEPT ![i].st = "REQUESTING"]
    /\ UNCHANGED <<dataVars, phase, outcome, movie_selected_title, matrix_read,
                   movie_index, movies_list_indices_scores,
                   recommended_movies_data_to_fetch, posters_map, titles_map,
                   ordered_titles, ordered_posters, cache, clock, batches, legacy>>

\* A Python dict is the sequence of its <<key, value>> items in insertion
\* order.  d[key] = value: a new key goes last, a known key keeps its place.
DictSet(d, key, value) ==
    IF \E k \in 1..Len(d) : d[k][1] = key
    THEN [k \in 1..Len(d) |-> IF d[k][1] = key THEN <<key, value>> ELSE d[k]]
    ELSE Append(d, <<key, value>>)

\* dict.get(key, default)
Get(d, key, default) ==
    IF \E k \in 1..Len(d) : d[k][1] = key
    THEN d[CHOOSE k \in 1..Len(d) : d[k][1] = key][2]
    ELSE default

\* Lines 121-132: as_completed hands over a finished future
Collect(i) ==
    /\ phase = "fetching"
    /\ i \in 1..Len(futures)
    /\ futures[i].st = "DONE"
    /\ ~futures[i].collected
    /\ futures' = [futures EXCEPT ![i] = Collected(futures[i].url)]
    /\ posters_map' = DictSet(posters_map, IdOf(i),
                               IF futures[i].url = Raised THEN placeholder_processing
                               ELSE futures[i].url)
    /\ titles_map' = DictSet(titles_map, IdOf(i), recommended_movies_data_to_fetch[i].title)
    /\ UNCHANGED <<dataVars, phase, outcome, movie_selected_title, matrix_read,
                   movie_index, movies_list_indices_scores,
                   recommended_movies_data_to_fetch, ordered_titles, ordered_posters,
                   cache, clock, batches, legacy>>

\* list(map.values()): the values in the order the futures completed in
CompletionOrder(map, default, num) ==
    [cell \in 1..num |-> IF cell <= Len(map) THEN map[cell][2] ELSE default]

\* Lines 135-143: the cell order_idx of a list of num cells, filled from map
\* by the entry of that original_order (None where no entry has it)
Reordered(map, default, num) ==
    [cell \in 1..num |->
        LET with == {k \in 1..Len(recommended_movies_data_to_fetch) :
                        recommended_movies_data_to_fetch[k].original_order = cell - 1}
        IN  IF with = {} THEN None
            ELSE Get(map, IdOf(CHOOSE k \in with : TRUE), default)]

\* Lines 134-145: every future is collected; the lists go back in rank order
Return ==
    /\ phase = "fetching"
    /\ \A i \in 1..Len(futures) : futures[i].collected
    /\ LET num_recommendations == Len(recommended_movies_data_to_fetch) IN
       IF \E k \in 1..num_recommendations :
              recommended_movies_data_to_fetch[k].original_order >= num_recommendations
       THEN \* ordered_titles[order_idx] = ... raises IndexError
            /\ outcome' = "IndexError"
            /\ ordered_titles' = <<>>
            /\ ordered_posters' = <<>>
       ELSE /\ outcome' = "ok"
            /\ ordered_titles' = Reordered(titles_map, "Title Not Found", num_recommendations)
            /\ ordered_posters' = Reordered(posters_map, placeholder_not_found,
                                            num_recommendations)
    /\ phase' = "returned"
    /\ UNCHANGED <<dataVars, movie_selected_title, matrix_read, movie_index,
                   movies_list_indices_scores, recommended_movies_data_to_fetch,
                   futures, posters_map, titles_map, cache, clock, batches, legacy>>

\* Time passes
Tick ==
    /\ clock < MaxTicks * TickHours
    /\ clock' = clock + TickHours
    /\ UNCHANGED <<dataVars, finalVars, cache, legacy>>

----------------------------------------------------------------------------
(* The lookup specification: the three lookups on every small catalog       *)

NextLookup ==
    \/ \E title \in Titles, kind \in ResponseKinds : recommend_movies(title, kind)
    \/ \E title \in Titles, kind \in ResponseKinds : recommend(title, kind)
    \/ \E title \in Titles : recommend_movies_final(title)

SpecLookup == InitLookup /\ [][NextLookup]_vars

----------------------------------------------------------------------------
(* The concurrent specification: app3.py on small catalogs whose ids may    *)
(* repeat, the endpoint answering each GET as it likes                      *)

\* The ids of the catalog items: the last two items share one
BatchIds == <<1, 2, 2>>

\* The largest batch these catalogs give: the slice of a row
MaxBatch == Min(SliceTo - SliceFrom, Len(BatchIds) - 1)

Init ==
    /\ app = "app3.py"
    /\ \E n \in 1..Len(BatchIds) :
         /\ movies = [k \in 1..n |-> [id |-> BatchIds[k], title |-> TitleNames[k]]]
         /\ similarity = MatrixOf([k \in 1..n |-> n - k])
    /\ Idle

Next ==
    \/ \E title \in Titles : recommend_movies_final(title)
    \/ \E i \in 1..MaxBatch : CacheCheck(i)
    \/ \E i \in 1..MaxBatch, kind \in ResponseKinds : NetworkCall(i, kind)
    \/ \E i \in 1..MaxBatch : BackoffOver(i)
    \/ \E i \in 1..MaxBatch : Collect(i)
    \/ Return
    \/ Tick

Spec == Init /\ [][Next]_vars

\* The executor runs every future it holds, every GET ends (an answer, an
\* error or the 10 s timeout), every backoff sleep ends, and the caller's
\* thread runs the as_completed loop.
WorkerStep(i) ==
    \/ CacheCheck(i)
    \/ \E kind \in ResponseKinds : NetworkCall(i, kind)
    \/ BackoffOver(i)

CallerStep == (\E i \in 1..MaxBatch : Collect(i)) \/ Return

Fairness ==
    /\ \A i \in 1..MaxBatch : WF_vars(WorkerStep(i))
    /\ WF_vars(CallerStep)

\* A batch lasts seconds (a GET at most 10 s, at most RetryTotal + 1 of them)
\* and the clock counts hours: the fair specification lets it advance
\* between the calls of recommend_movies_final only (after the last call
\* nothing reads it any more).
TickBetweenCalls == phase # "fetching" /\ batches < MaxBatches /\ Tick

NextFair ==
    \/ \E title \in Titles : recommend_movies_final(title)
    \/ \E i \in 1..MaxBatch : WorkerStep(i)
    \/ CallerStep
    \/ TickBetweenCalls

FairSpec == Init /\ [][NextFair]_vars /\ Fairness

----------------------------------------------------------------------------
(* The same program on a similarity matrix with one column more than the    *)
(* catalog has items (similarity.pkl and movie_dict.pkl are separate files): *)
(* the case the boundary check of line 98 is there for.  Ids are distinct.   *)

InitRagged ==
    /\ app = "app3.py"
    /\ \E n \in 2..Len(BatchIds) :
         /\ movies = [k \in 1..n |-> [id |-> k, title |-> TitleNames[k]]]
         /\ similarity = SubSeq(MatrixOf([k \in 1..(n + 1) |-> n + 1 - k]), 1, n)
    /\ Idle

SpecRagged == InitRagged /\ [][Next]_vars

----------------------------------------------------------------------------
(* The executor at its limit: a catalog with more candidates than the slice  *)
(* takes, so that a batch has as many fetches as the pool has workers.  The  *)
(* endpoint answers 404 or 503: the shortest stay of a fetch on its worker   *)
(* (one GET) and the longest (every retry, with the backoffs between); no    *)
(* time passes between the calls.                                            *)

PoolKinds == {"s404", "s503"}

InitPool ==
    /\ app = "app3.py"
    /\ movies = [k \in 1..MaxN |-> [id |-> k, title |-> TitleNames[k]]]
    /\ similarity = MatrixOf([k \in 1..MaxN |-> MaxN - k])
    /\ Idle

NextPool ==
    \/ recommend_movies_final(movies[1].title)
    \/ \E i \in 1..MaxWorkers : CacheCheck(i)
    \/ \E i \in 1..MaxWorkers, kind \in PoolKinds : NetworkCall(i, kind)
    \/ \E i \in 1..MaxWorkers : BackoffOver(i)
    \/ \E i \in 1..MaxWorkers : Collect(i)
    \/ Return

SpecPool == InitPool /\ [][NextPool]_vars

----------------------------------------------------------------------------
(* Properties of the lookup *)

TopN == SliceTo - SliceFrom

\* pairs is in descending score order, equal scores by ascending index
RankOrdered(pairs) ==
    \A k, l \in 1..Len(pairs) :
        k < l => \/ pairs[k][2] > pairs[l][2]
                 \/ (pairs[k][2] = pairs[l][2] /\ pairs[k][1] < pairs[l][1])

LookupReturnedLegacy == legacy.outcome = "ok"
LookupReturnedFinal == app = "app3.py" /\ outcome \in {"pending", "empty"}

\* C2: for every valid query title and every similarity row, the list
\* recommend returns never contains the query item itself.
C2_NeverQueryItem ==
    /\ LookupReturnedLegacy =>
         \A k \in 1..Len(legacy.movies_list) : legacy.movies_list[k][1] # legacy.movie_index
    /\ LookupReturnedFinal =>
         \A k \in 1..Len(movies_list_indices_scores) :
             movies_list_indices_scores[k][1] # movie_index

\* C3: the items recommend returns are in descending order of their score in
\* the query item's row, equal scores in ascending catalog index; the titles
\* app.py and app2.py return are those of the ranked items, in rank order.
C3_DescendingStable ==
    /\ LookupReturnedLegacy =>
         /\ RankOrdered(legacy.movies_list)
         /\ \A k \in 1..Len(legacy.movies_list) :
              /\ legacy.movies_list[k][2]
                   = similarity[legacy.movie_index + 1][legacy.movies_list[k][1] + 1]
              /\ legacy.names[k] = movies[legacy.movies_list[k][1] + 1].title
    /\ LookupReturnedFinal =>
         /\ RankOrdered(movies_list_indices_scores)
         /\ \A k \in 1..Len(movies_list_indices_scores) :
              /\ movies_list_indices_scores[k][2]
                   = similarity[movie_index + 1][movies_list_indices_scores[k][1] + 1]
              /\ recommended_movies_data_to_fetch[k].title
                   = movies[movies_list_indices_scores[k][1] + 1].title

\* The scenario of the specification: row [1.0, .9, .2, .9, .5, .1] for A
\* gives [B, D, E, C, F].
C3_Witness ==
    /\ Len(movies) = Len(ExampleRow)
    /\ similarity[1] = ExampleRow
    /\ LookupReturnedLegacy
    /\ legacy.title = "A"
    /\ legacy.names = <<"B", "D", "E", "C", "F">>

\* C4: recommend with a title that matches no catalog item ends NotFound,
\* decided before the similarity matrix is read, never an indexing fault.
C4_UnknownTitleNotFound ==
    /\ (legacy.outcome # "none" /\ TitleIndex(legacy.title, 1) = <<>>) =>
         (legacy.outcome = "NotFound" /\ ~legacy.matrix_read)
    /\ (outcome # "none" /\ TitleIndex(movie_selected_title, 1) = <<>>) =>
         (outcome = "NotFound" /\ ~matrix_read)

\* C10: for every valid query title recommend returns exactly
\* min(top_n, catalog_size - 1) items, top_n = 5.
C10_ResultLength ==
    /\ LookupReturnedLegacy =>
         /\ Len(legacy.names) = Min(TopN, Len(movies) - 1)
         /\ Len(legacy.posters) = Len(legacy.names)
    /\ LookupReturnedFinal =>
         /\ Len(movies_list_indices_scores) = Min(TopN, Len(movies) - 1)
         /\ Len(recommended_movies_data_to_fetch) = Min(TopN, Len(movies) - 1)

\* A catalog with more candidates than top_n, cut to top_n
C10_Witness ==
    /\ Len(movies) = TopN + 2
    /\ LookupReturnedFinal
    /\ Len(recommended_movies_data_to_fetch) = TopN

----------------------------------------------------------------------------
(* Properties of the poster fetch *)

Futures == 1..Len(futures)

\* The URLs a fetch for id may end with
PosterOutcomes(id) ==
    {image_prefix \o PosterPath(id), placeholder_no_poster, placeholder_error}

BatchReturned == phase = "returned" /\ futures # <<>>

\* C1: the batch returns lists of the length of its input, and cell i holds
\* the URL a fetch for the id of input i ended with, whatever the order in
\* which the fetches completed and whether they met the cache or the network.
C1_OrderPreserved ==
    BatchReturned =>
        /\ outcome = "ok"
        /\ Len(ordered_posters) = Len(recommended_movies_data_to_fetch)
        /\ Len(ordered_titles) = Len(recommended_movies_data_to_fetch)
        /\ \A i \in Futures :
             ordered_posters[i] \in {futures[j].url : j \in {k \in Futures : IdOf(k) = IdOf(i)}}

\* Two ids, the second completing first, with different URLs
C1_Witness ==
    /\ BatchReturned
    /\ Len(futures) = 2
    /\ IdOf(1) # IdOf(2)
    /\ posters_map[1][1] = IdOf(2)
    /\ ordered_posters[1] = futures[1].url
    /\ ordered_posters[2] = futures[2].url
    /\ ordered_posters[1] # ordered_posters[2]

\* A fetch that went to the network, got only 503 answers and has ended
Ended503(i) ==
    /\ futures[i].st = "DONE"
    /\ futures[i].attempts > 0
    /\ futures[i].all503

\* C5 as stated: a fetch answered 503 every time ends after exactly 3
\* network attempts, with the error placeholder.
C5_ThreeAttempts ==
    \A i \in Futures :
        Ended503(i) => (futures[i].attempts = 3 /\ futures[i].url = placeholder_error)

\* C5 as the code has it: Retry(total=3) allows 3 retries after the first
\* attempt, so the fetch ends after exactly 4 attempts, with the error
\* placeholder and without raising; no fetch makes more attempts than that.
C5_FourAttempts ==
    \A i \in Futures :
        /\ futures[i].attempts <= RetryTotal + 1
        /\ Ended503(i) =>
             (futures[i].attempts = RetryTotal + 1 /\ futures[i].url = placeholder_error)

C5_Witness ==
    \E i \in Futures :
        Ended503(i) /\ futures[i].attempts = RetryTotal + 1 /\ futures[i].url = placeholder_error

\* C6: whatever the endpoint does, a fetch ends with the real poster URL of
\* its id, the no-poster placeholder or the error placeholder; the batch
\* returns a full list of such URLs and never fails.
C6_AlwaysFallback ==
    /\ \A i \in Futures :
         futures[i].st = "DONE" => futures[i].url \in PosterOutcomes(IdOf(i))
    /\ BatchReturned =>
         /\ outcome = "ok"
         /\ Len(ordered_posters) = Len(futures)
         /\ \A i \in Futures : ordered_posters[i] \in PosterOutcomes(IdOf(i))

\* A batch of two that returned in full although both fetches failed
C6_Witness ==
    /\ BatchReturned
    /\ outcome = "ok"
    /\ Len(futures) = 2
    /\ \A i \in Futures : ordered_posters[i] = placeholder_error

\* A fetch that starts on an entry of its id younger than the TTL
StartsFresh(i) ==
    /\ phase = "fetching"
    /\ futures[i].st = "PENDING"
    /\ futures'[i].st # "PENDING"
    /\ IdOf(i) \in DOMAIN cache
    /\ clock - cache[IdOf(i)].at < TTL

\* A fetch that starts on an entry of its id whose age has reached the TTL
StartsStale(i) ==
    /\ phase = "fetching"
    /\ futures[i].st = "PENDING"
    /\ futures'[i].st # "PENDING"
    /\ IdOf(i) \in DOMAIN cache
    /\ clock - cache[IdOf(i)].at >= TTL

\* A fetch that ends through the network
EndsByNetwork(i) ==
    /\ phase = "fetching"
    /\ futures[i].st = "REQUESTING"
    /\ futures'[i].st = "DONE"

\* C7: a fetch that starts while the entry a completed fetch left for its id
\* is younger than the TTL ends at once with the URL of that entry (the URL
\* the completed fetch returned) and issues no network call.
C7_FreshEntryServed ==
    [][\A i \in Futures :
         /\ StartsFresh(i) =>
              /\ futures'[i].st = "DONE"
              /\ futures'[i].url = cache[IdOf(i)].url
              /\ futures'[i].attempts = 0
              /\ cache' = cache
         /\ EndsByNetwork(i) => cache'[IdOf(i)].url = futures'[i].url]_vars

\* A hit on an entry of positive age, in a later call
C7_Witness ==
    \E i \in Futures :
        /\ futures[i].st = "DONE"
        /\ futures[i].how = "hit"
        /\ futures[i].attempts = 0
        /\ batches > 1
        /\ cache[IdOf(i)].at < clock
        /\ clock - cache[IdOf(i)].at < TTL
        /\ futures[i].url = cache[IdOf(i)].url

\* C8: a fetch that starts on an entry whose age has reached the TTL does
\* not take the cached URL: it goes to the network (it can only end through
\* a network call), and its result replaces the entry, stamped anew.
C8_StaleEntryRefetched ==
    [][\A i \in Futures :
         /\ StartsStale(i) =>
              /\ futures'[i].st = "REQUESTING"
              /\ futures'[i].url = None
         /\ (phase = "fetching" /\ futures[i].st = "REQUESTING"
               /\ futures'[i].st # "REQUESTING") =>
              futures'[i].attempts = futures[i].attempts + 1
         /\ EndsByNetwork(i) =>
              cache'[IdOf(i)] = [url |-> futures'[i].url, at |-> clock]]_vars

\* A refetch over an entry exactly TTL old, ended, the entry replaced
C8_Witness ==
    \E i \in Futures :
        /\ futures[i].st = "DONE"
        /\ futures[i].how = "stale"
        /\ futures[i].attempts > 0
        /\ cache[IdOf(i)] = [url |-> futures[i].url, at |-> TTL]

\* C9: under fair scheduling, with every network call ending, every fetch
\* of a batch ends and the batch returns.
C9_EveryFetchEnds ==
    (phase = "fetching")
        ~> (phase = "returned" /\ \A i \in Futures : futures[i].st = "DONE")

\* A fetch that went REQUESTING -> BACKOFF as often as the budget allows
\* and has ended, beside another still on its way
C9_Witness ==
    /\ phase = "fetching"
    /\ \E i \in Futures :
         futures[i].st = "DONE" /\ futures[i].attempts = RetryTotal + 1
    /\ \E i \in Futures : futures[i].st = "BACKOFF"

\* The URLs that stand in for a poster
Placeholders == {placeholder_no_poster, placeholder_error}

\* The first GET of a fetch is about to be answered
FirstCall(i) ==
    /\ phase = "fetching"
    /\ futures[i].st = "REQUESTING"
    /\ futures[i].attempts = 0

\* C11: when the first answer for an id is a failure that is not retryable
\* (status 404, or a body that is not JSON), the fetch has made exactly one
\* network call, has not entered backoff (its retry budget is untouched) and
\* ends with the error placeholder.
C11_NonRetryableEndsAtOnce ==
    [][\A i \in Futures, kind \in {"s404", "garbage"} :
         (FirstCall(i) /\ NetworkCall(i, kind)) =>
             /\ futures'[i].st = "DONE"
             /\ futures'[i].attempts = 1
             /\ futures'[i].total = RetryTotal
             /\ futures'[i].url = placeholder_error]_vars

\* Two fetches of one batch, one ended by a 404 and one by a body that is
\* not JSON, each after a single call
C11_Witness ==
    /\ \E i \in Futures :
         /\ futures[i].st = "DONE"
         /\ futures[i].last = ResponseFor("s404", IdOf(i))
         /\ futures[i].attempts = 1
         /\ futures[i].total = RetryTotal
         /\ futures[i].url = placeholder_error
    /\ \E i \in Futures :
         /\ futures[i].st = "DONE"
         /\ futures[i].last = ResponseFor("garbage", IdOf(i))
         /\ futures[i].attempts = 1
         /\ futures[i].url = placeholder_error

\* A fetch in REQUESTING has had attempts answers, every one a transient
\* failure: k = attempts.
\* C12: a transient failure (503, a timeout) that leaves k smaller than the
\* retry budget sends the fetch to backoff and back to REQUESTING, and a
\* poster answered after k < RetryTotal such failures ends the fetch with
\* the real poster URL of the id, no placeholder, after exactly k + 1 calls.
C12_SuccessAfterTransient ==
    [][\A i \in Futures :
         /\ \A kind \in {"s503", "timeout"} :
              (/\ phase = "fetching"
               /\ futures[i].st = "REQUESTING"
               /\ futures[i].attempts + 1 < RetryTotal
               /\ NetworkCall(i, kind)) =>
                  /\ futures'[i].st = "BACKOFF"
                  /\ futures'[i].attempts = futures[i].attempts + 1
         /\ (phase = "fetching" /\ futures[i].st = "BACKOFF" /\ futures'[i] # futures[i]) =>
              futures'[i] = [futures[i] EXCEPT !.st = "REQUESTING"]
         /\ (/\ phase = "fetching"
             /\ futures[i].st = "REQUESTING"
             /\ futures[i].attempts < RetryTotal
             /\ NetworkCall(i, "poster")) =>
                /\ futures'[i].st = "DONE"
                /\ futures'[i].url = image_prefix \o PosterPath(IdOf(i))
                /\ futures'[i].url \notin Placeholders \cup {placeholder_processing, placeholder_not_found}
                /\ futures'[i].attempts = futures[i].attempts + 1]_vars

\* Two transient failures, then the poster at the third call
C12_Witness ==
    \E i \in Futures :
        /\ futures[i].st = "DONE"
        /\ futures[i].last = ResponseFor("poster", IdOf(i))
        /\ futures[i].attempts = RetryTotal
        /\ futures[i].total = 1
        /\ futures[i].url = image_prefix \o PosterPath(IdOf(i))

\* A response raise_for_status lets through and response.json() can read
Successful(r) == r.kind = "http" /\ r.status < 400 /\ r.json

\* A fetch that ended on a successful response, its result not yet handed over
EndedOnSuccess(i) ==
    /\ futures[i].st = "DONE"
    /\ futures[i].attempts > 0
    /\ Successful(futures[i].last)

\* C14: on a successful response the fetch returns the image prefix followed
\* by the poster path exactly when the poster path is present and not empty,
\* and the no-poster placeholder, which is not the error placeholder,
\* exactly when the poster path is absent, null or empty.
C14_PosterOrNoPoster ==
    /\ placeholder_no_poster # placeholder_error
    /\ \A i \in Futures :
         EndedOnSuccess(i) =>
             LET poster_path == futures[i].last.poster_path
                 present == poster_path # None /\ poster_path # ""
             IN  /\ present <=> futures[i].url = image_prefix \o poster_path
                 /\ ~present <=> futures[i].url = placeholder_no_poster
                 /\ futures[i].url # placeholder_error

\* One batch with a poster for id 1 ("/p1.jpg" behind the prefix, which ends
\* in a slash itself) and an empty poster path for id 2
C14_Witness ==
    /\ \E i \in Futures :
         /\ EndedOnSuccess(i)
         /\ futures[i].last.poster_path = "/p1.jpg"
         /\ futures[i].url = "https://image.tmdb.org/t/p/w500//p1.jpg"
    /\ \E i \in Futures :
         /\ EndedOnSuccess(i)
         /\ futures[i].last.poster_path = ""
         /\ futures[i].url = placeholder_no_poster

\* C15: every outcome of a fetch is stored, the placeholders too: a fetch
\* that ends through the network with a placeholder leaves it in the cache
\* under its id, stamped with the time, and a later fetch for the id that
\* starts while that entry is younger than the TTL ends with the same
\* placeholder and issues no network call, whatever the endpoint would
\* answer by then.
C15_PlaceholdersCached ==
    [][\A i \in Futures :
         /\ (EndsByNetwork(i) /\ futures'[i].url \in Placeholders) =>
              /\ IdOf(i) \in DOMAIN cache'
              /\ cache'[IdOf(i)] = [url |-> futures'[i].url, at |-> clock]
         /\ (StartsFresh(i) /\ cache[IdOf(i)].url \in Placeholders) =>
              /\ futures'[i].st = "DONE"
              /\ futures'[i].url = cache[IdOf(i)].url
              /\ futures'[i].attempts = 0
              /\ futures'[i].total = RetryTotal
              /\ cache' = cache]_vars

\* A later call, later in time, served the error placeholder an earlier
\* fetch left in the cache
C15_Witness ==
    \E i \in Futures :
        /\ batches > 1
        /\ futures[i].st = "DONE"
        /\ futures[i].how = "hit"
        /\ futures[i].attempts = 0
        /\ futures[i].url = placeholder_error
        /\ cache[IdOf(i)].url = placeholder_error
        /\ cache[IdOf(i)].at < clock

\* The catalog item at rank r (1-based) of the last call
RankedItem(r) == movies[movies_list_indices_scores[r][1] + 1]

\* C16: in the result of recommend_movies_final the title at rank r is the
\* title of the r-th most similar catalog item and the poster at rank r is a
\* URL a fetch for the id of that item ended with, in every completion order
\* and also when two recommended items share one id.
C16_RankTitleAndPoster ==
    BatchReturned =>
        /\ outcome = "ok"
        /\ Len(ordered_titles) = Len(movies_list_indices_scores)
        /\ Len(ordered_posters) = Len(movies_list_indices_scores)
        /\ \A r \in 1..Len(movies_list_indices_scores) :
             /\ ordered_titles[r] = RankedItem(r).title
             /\ ordered_posters[r] \in
                  {futures[j].url : j \in {k \in Futures : IdOf(k) = RankedItem(r).id}}

\* The ranks of the last call whose index lies outside the catalog
OutsideRanks ==
    {r \in 1..Len(movies_list_indices_scores) :
        movies_list_indices_scores[r][1] >= Len(movies)}

\* C17: when a top-ranked index of the row lies outside the catalog,
\* recommend_movies_final skips it and returns the remaining picks in rank
\* order, as many titles as posters, and raises no indexing fault.
C17_SkipsOutsideIndex ==
    (phase = "returned" /\ matrix_read /\ OutsideRanks # {}) =>
        /\ outcome \in {"ok", "empty"}
        /\ Len(ordered_titles) = Len(ordered_posters)
        /\ ordered_titles = [k \in 1..Len(recommended_movies_data_to_fetch) |->
                                recommended_movies_data_to_fetch[k].title]

\* The fetches that hold a worker
Occupying == {i \in Futures : futures[i].st \in {"REQUESTING", "BACKOFF"}}

\* C13: at every moment of a batch at most 5 fetches are in REQUESTING or
\* BACKOFF, however many ids the batch has.
C13_AtMostFiveWorkers == Cardinality(Occupying) <= 5

\* Five fetches on the five workers at once, some waiting for an answer
\* and some in backoff
C13_Witness ==
    /\ Len(futures) = 5
    /\ Cardinality(Occupying) = 5
    /\ \E i \in Futures : futures[i].st = "REQUESTING"
    /\ \E i \in Futures : futures[i].st = "BACKOFF"

============================================================================
